---- MODULE Spec2Model ----
(***************************************************************************)
(* Parliament pipeline: the debate status machine driven by Celery stage   *)
(* tasks (scrape/ingest/transcribe/process/summarize/publish), the poll    *)
(* task that seeds it, the retry bookkeeping of app/utils/retry.py and the *)
(* administrative retrigger of app/main.py.                                *)
(***************************************************************************)
EXTENDS Integers, Sequences, FiniteSets, Bags, TLC

(* ------------------------------ bounds -------------------------------- *)
\* number of poll tasks submitted (beat timer or POST /api/poll)
MaxPolls == 2
\* number of failures injected into external collaborators (scraper, media
\* download, recogniser, forum, ...)
MaxFailures == 3
\* number of POST /api/retrigger requests
MaxRetriggers == 1
\* speeches returned by the Hansard scraper for the sitting
SpeechCount == 2
\* categories in one answer of the classifying LLM
MaxLlmCategories == 2

(* ------------------------- program constants -------------------------- *)
\* Settings.max_retries
max_retries == 3
\* @celery.task(max_retries=3) of every stage task but transcribe_debate
stage_max_retries == 3
\* @celery.task(max_retries=2) of transcribe_debate
transcribe_max_retries == 2
\* celery worker --concurrency=2
WorkerConcurrency == 2

LEGISLATURE_CODES == <<"CA", "ON", "QC">>

Codes == {LEGISLATURE_CODES[k] : k \in DOMAIN LEGISLATURE_CODES}

\* the wire-stable status vocabulary
StatusValues ==
  {"scheduled", "detected", "scraping_hansard", "ingesting", "transcribing",
   "processing", "summarizing", "categorizing", "publishing", "published", "error"}

\* from_stage is a free string of RetriggerRequest: the vocabulary plus one
\* string outside it
FromStages == StatusValues \cup {"bogus"}

\* error_message values: NULL, str(e), "Max retries exceeded. Last error: ..."
NoMessage == "null"
ErrMessage == "err"
MaxRetriesMessage == "Max retries exceeded. Last error: err"

(* --------------------------- stage tables ----------------------------- *)
\* trigger_debate_pipeline: stages of the Hansard-first pipeline
HansardStages ==
  [detected         |-> <<"scrape_hansard", "process_debate", "summarize_debate", "publish_debate">>,
   scraping_hansard |-> <<"scrape_hansard", "process_debate", "summarize_debate", "publish_debate">>,
   processing       |-> <<"process_debate", "summarize_debate", "publish_debate">>,
   summarizing      |-> <<"summarize_debate", "publish_debate">>,
   categorizing     |-> <<"publish_debate">>,
   publishing       |-> <<"publish_debate">>]

\* trigger_debate_pipeline: stages of the legacy video pipeline
LegacyStages ==
  [detected     |-> <<"ingest_debate", "transcribe_debate", "process_debate", "summarize_debate", "publish_debate">>,
   ingesting    |-> <<"ingest_debate", "transcribe_debate", "process_debate", "summarize_debate", "publish_debate">>,
   transcribing |-> <<"transcribe_debate", "process_debate", "summarize_debate", "publish_debate">>,
   processing   |-> <<"process_debate", "summarize_debate", "publish_debate">>,
   summarizing  |-> <<"summarize_debate", "publish_debate">>,
   categorizing |-> <<"publish_debate">>,
   publishing   |-> <<"publish_debate">>]

\* the lookup that always answers the whole chain
StageTasksFromStart(from_stage, hansard_first) ==
  (IF hansard_first THEN HansardStages ELSE LegacyStages)["detected"]

\* the lookup without a default: no task for a from_stage that is not a key
StageTasksKeysOnly(from_stage, hansard_first) ==
  LET stages == IF hansard_first THEN HansardStages ELSE LegacyStages
  IN  IF from_stage \in DOMAIN stages THEN stages[from_stage] ELSE <<>>

\* stages.get(from_stage, list(stages.values())[0]): the first value of either
\* dict is the one inserted under "detected"
StageTasks(from_stage, hansard_first) ==
  LET stages == IF hansard_first THEN HansardStages ELSE LegacyStages
  IN  IF from_stage \in DOMAIN stages THEN stages[from_stage] ELSE stages["detected"]

\* the status each stage task writes on entry (its first statement)
EnterStatus(task) ==
  CASE task = "scrape_hansard"    -> "scraping_hansard"
    [] task = "ingest_debate"     -> "ingesting"
    [] task = "transcribe_debate" -> "transcribing"
    [] task = "process_debate"    -> "processing"
    [] task = "summarize_debate"  -> "summarizing"
    [] task = "publish_debate"    -> "publishing"

\* max_retries of the @celery.task decorator of each stage task
TaskMaxRetries(task) ==
  IF task = "transcribe_debate" THEN transcribe_max_retries ELSE stage_max_retries

\* Task.retry of a bound task: the task is sent again while
\* request.retries + 1 <= max_retries, otherwise exc is raised
RetryAllowed(task, retries) == retries + 1 <= TaskMaxRetries(task)


(* ------------------- summarize_debate -> generate_summary ------------- *)
\* keyword arguments summarize_debate passes to generate_summary
summarize_call_kwargs ==
  {"debate", "transcripts", "contributions", "votes", "language", "debate_topics"}

\* parameters generate_summary declares (it takes no **kwargs)
generate_summary_params ==
  {"debate", "transcripts", "contributions", "votes", "language"}

\* a call the callee accepts
GenerateSummaryAcceptsCall == FALSE

\* a keyword the callee does not declare raises TypeError at the call
GenerateSummaryRaises == ~(summarize_call_kwargs \subseteq generate_summary_params)

(* ------------------------------ categorizer --------------------------- *)
\* scores and confidences are counted in thousandths, weighted scores in ten
\* thousandths (0.3 x 1.0 is 3000), so that the arithmetic is exact
VALID_TOPICS ==
  <<"general", "healthcare", "economy", "housing", "climate", "education",
    "transit", "immigration", "indigenous", "defense", "justice", "childcare",
    "accessibility", "budget", "other">>

ValidTopics == {VALID_TOPICS[k] : k \in DOMAIN VALID_TOPICS}

\* the keys of KEYWORD_MAP, in the order _keyword_classify visits them
KEYWORD_MAP_KEYS ==
  <<"healthcare", "economy", "housing", "climate", "education", "transit",
    "immigration", "indigenous", "defense", "justice", "childcare",
    "accessibility", "budget">>

\* the keys of KEYWORD_MAP whose keywords the texts may contain
MaxKeywordTopics == 3

\* min(1.0, log(1 + count) / 5.0) of a keyword found once, and of one found
\* often enough to reach the cap; 0 stands for a topic with no key in scores
KeywordLevels == {0, 139, 1000}

\* what the LLM may name: valid slugs, one of them without keywords, and a
\* string outside the vocabulary
LlmSlugs == {"general", "healthcare", "climate", "sports"}

\* confidences the LLM may give, inside and outside 0.0 .. 1.0
LlmConfidences == {-100, 140, 1500}

KEYWORD_WEIGHT == 3
LLM_WEIGHT == 7
\* 0.1, 1.0 and 0.5 in ten thousandths
THRESHOLD == 1000
FULL == 10000
FALLBACK_CONFIDENCE == 5000

MinOf(a, b) == IF a <= b THEN a ELSE b
MaxOf(a, b) == IF a >= b THEN a ELSE b

\* the dict _keyword_classify returns, as its items in insertion order
KeywordScores(level) ==
  LET present == SelectSeq(SubSeq(KEYWORD_MAP_KEYS, 1, MaxKeywordTopics),
                           LAMBDA t : level[t] > 0)
  IN  [k \in DOMAIN present |-> [topic |-> present[k], score |-> level[present[k]]]]

\* _llm_classify after json.loads: entries with a valid slug are kept, their
\* confidence clamped to 0.0 .. 1.0
RECURSIVE _llm_classify(_)
_llm_classify(categories) ==
  IF categories = <<>> THEN <<>>
  ELSE LET cat == Head(categories)
           rest == _llm_classify(Tail(categories))
       IN  IF cat.topic_slug \in ValidTopics
           THEN <<[topic_slug |-> cat.topic_slug,
                   confidence |-> MinOf(1000, MaxOf(0, cat.confidence))]>> \o rest
           ELSE rest

\* _merge_classifications: merged[topic] = score * 0.3
WeightedKeywords(keyword_scores) ==
  [k \in DOMAIN keyword_scores |->
     [topic |-> keyword_scores[k].topic,
      score |-> keyword_scores[k].score * KEYWORD_WEIGHT]]

\* _merge_classifications: merged[topic] = merged.get(topic, 0) + confidence * 0.7
RECURSIVE AddLlmScores(_, _)
AddLlmScores(merged, llm_categories) ==
  IF llm_categories = <<>> THEN merged
  ELSE LET cat == Head(llm_categories)
           hit == {k \in DOMAIN merged : merged[k].topic = cat.topic_slug}
           llm_score == cat.confidence * LLM_WEIGHT
       IN  AddLlmScores(
             IF hit = {} THEN Append(merged, [topic |-> cat.topic_slug, score |-> llm_score])
             ELSE [k \in DOMAIN merged |->
                     IF k \in hit THEN [merged[k] EXCEPT !.score = @ + llm_score]
                     ELSE merged[k]],
             Tail(llm_categories))

\* sorted(merged.items(), key=score, reverse=True): the sort is stable, items
\* of equal score keep their insertion order
RECURSIVE SortedByScore(_)
SortedByScore(items) ==
  IF items = <<>> THEN <<>>
  ELSE LET last == items[Len(items)]
           front == SortedByScore(SubSeq(items, 1, Len(items) - 1))
           n == Cardinality({k \in DOMAIN front : front[k].score >= last.score})
       IN  SubSeq(front, 1, n) \o <<last>> \o SubSeq(front, n + 1, Len(front))

\* the [{"topic_slug": "general", "confidence": 0.5, "is_primary": True}]
GeneralOnly ==
  <<[topic_slug |-> "general", confidence |-> FALLBACK_CONFIDENCE, is_primary |-> TRUE]>>

\* _merge_classifications, the loop over sorted_topics[:3]
RankedCategories(keyword_scores, llm_categories) ==
  LET merged == AddLlmScores(WeightedKeywords(keyword_scores), llm_categories)
      sorted_topics == SortedByScore(merged)
      top == SubSeq(sorted_topics, 1, MinOf(3, Len(sorted_topics)))
      entries == [i \in DOMAIN top |->
                    [topic_slug |-> top[i].topic,
                     confidence |-> MinOf(FULL, top[i].score),
                     is_primary |-> (i = 1),
                     kept |-> top[i].score >= THRESHOLD]]
      kept == SelectSeq(entries, LAMBDA e : e.kept)
  IN  [i \in DOMAIN kept |->
         [topic_slug |-> kept[i].topic_slug, confidence |-> kept[i].confidence,
          is_primary |-> kept[i].is_primary]]

\* the function without its last `if not categories`
MergeWithoutLastFallback(keyword_scores, llm_categories) ==
  IF keyword_scores = <<>> /\ llm_categories = <<>> THEN GeneralOnly
  ELSE RankedCategories(keyword_scores, llm_categories)

\* _merge_classifications
_merge_classifications(keyword_scores, llm_categories) ==
  IF keyword_scores = <<>> /\ llm_categories = <<>> THEN GeneralOnly
  ELSE LET categories == RankedCategories(keyword_scores, llm_categories)
       IN  IF categories = <<>> THEN GeneralOnly ELSE categories

(* ----------------------------- speaker names -------------------------- *)
\* a name is the sequence of its words.  One member as the two strategies of
\* scrape_hansard_for_date name them: the XML export gives "<first> <last>",
\* the HTML cards give the text of the member link, which carries the title
SpeakerNames == {<<"Jo", "Roy">>, <<"Hon.", "Jo", "Roy">>}

\* str.lower on the words that occur
Lower(word) ==
  CASE word = "Jo" -> "jo"
    [] word = "Roy" -> "roy"
    [] word = "Hon." -> "hon."
    [] word = "Al" -> "al"
    [] word = "Poe" -> "poe"
    [] word = "Zed" -> "zed"
    [] OTHER -> word

\* the titles of the regular expression of _normalize_name
Titles ==
  {"honourable", "hon.", "hon", "mr.", "mr", "mrs.", "mrs", "ms.", "ms", "mme.",
   "mme", "m.", "m"}

\* _normalize_name: lower case, then one leading title, with "the" and "right"
\* before it, is removed; nothing is removed when no title follows
\* (that a title is matched as a prefix of a longer word is not modelled)
_normalize_name(name) ==
  LET low == [k \in DOMAIN name |-> Lower(name[k])]
      a == IF low # <<>> /\ Head(low) = "the" THEN Tail(low) ELSE low
      b == IF a # <<>> /\ Head(a) = "right" THEN Tail(a) ELSE a
  IN  IF b # <<>> /\ Head(b) \in Titles THEN Tail(b)
      ELSE IF a # <<>> /\ Head(a) \in Titles THEN Tail(a)
      ELSE IF low # <<>> /\ Head(low) \in Titles THEN Tail(low)
      ELSE low

(* ------------------- speaker alignment and contributions ---------------- *)
\* the longest list of recogniser segments of the primary transcript
MaxSegments == 3

\* None where a speaker id is expected
NoSpeaker == <<>>

\* hansard_data["speakers"] of the sitting
HansardSpeakers == <<<<"Jo", "Roy">>, <<"Al", "Poe">>>>

\* hansard_data["interventions"] of the sitting, text as its words
HansardInterventions ==
  <<[speaker_name |-> <<"Jo", "Roy">>, text |-> <<"a", "b">>],
    [speaker_name |-> <<"Al", "Poe">>, text |-> <<"c", "d">>]>>

\* segment["text"]: the name before a colon, if any, and the words after it
SegmentTexts ==
  {[name |-> <<>>, body |-> <<>>],
   [name |-> <<>>, body |-> <<"a", "b">>],
   [name |-> <<>>, body |-> <<"c", "d">>],
   [name |-> <<>>, body |-> <<"x">>],
   [name |-> <<"Jo", "Roy">>, body |-> <<"x">>],
   [name |-> <<"Roy">>, body |-> <<"x">>],
   [name |-> <<"Zed">>, body |-> <<"x">>],
   [name |-> <<"Al", "Poe">>, body |-> <<"a", "b">>]}

\* text.split(): the colon stays on the last word of the name
TextWords(seg) ==
  IF seg.name = <<>> THEN seg.body
  ELSE [k \in DOMAIN seg.name |->
          IF k = Len(seg.name) THEN seg.name[k] \o ":" ELSE seg.name[k]] \o seg.body

\* set(text.lower().split())
WordSet(words) == {Lower(words[k]) : k \in DOMAIN words}

\* _text_similarity(text1, text2) > 0.3, the similarity being
\* len(intersection) / len(union) of the two word sets, 0.0 if one is empty
\* (intervention_text[:200] is the whole text of these interventions)
SimilarityAboveThreshold(words1, words2) ==
  LET w1 == WordSet(words1)
      w2 == WordSet(words2)
  IN  /\ w1 # {}
      /\ w2 # {}
      /\ 10 * Cardinality(w1 \cap w2) > 3 * Cardinality(w1 \cup w2)

\* dict assignment: a new key goes last, a known key keeps its place
PutKey(items, key, id) ==
  IF \E k \in DOMAIN items : items[k].key = key
  THEN [k \in DOMAIN items |-> IF items[k].key = key THEN [key |-> key, id |-> id]
                                 ELSE items[k]]
  ELSE Append(items, [key |-> key, id |-> id])

\* dict.get(key)
GetKey(items, key) ==
  IF \E k \in DOMAIN items : items[k].key = key
  THEN items[CHOOSE k \in DOMAIN items : items[k].key = key].id
  ELSE NoSpeaker

\* step 1 of map_speakers: name and normalised name of every Hansard speaker
\* lead to the id of its row, which (legislature_id, name_normalized) identifies
RECURSIVE SpeakerNameToId(_)
SpeakerNameToId(speakers) ==
  IF speakers = <<>> THEN <<>>
  ELSE LET hs == speakers[Len(speakers)]
           before == SpeakerNameToId(SubSeq(speakers, 1, Len(speakers) - 1))
       IN  PutKey(PutKey(before, hs, _normalize_name(hs)),
                  _normalize_name(hs), _normalize_name(hs))

\* `a in b` of two names
NameIn(a, b) ==
  \E k \in 0..(Len(b) - Len(a)) : SubSeq(b, k + 1, k + Len(a)) = a

\* re.match(r'^([A-Z][^:]{2,40}):\s', text): the name, which in SegmentTexts
\* starts with a capital and has 3 to 41 characters, or <<>>
NamePattern(seg) ==
  IF seg.name # <<>> /\ seg.body # <<>> THEN seg.name ELSE <<>>

\* _detect_speaker_in_text: exact match of the normalised name, then the first
\* known name that contains it or is contained in it
_detect_speaker_in_text(seg, items) ==
  LET normalized == _normalize_name(NamePattern(seg))
      partial == {k \in DOMAIN items :
                    NameIn(normalized, items[k].key) \/ NameIn(items[k].key, normalized)}
  IN  IF NamePattern(seg) = <<>> THEN NoSpeaker
      ELSE IF \E k \in DOMAIN items : items[k].key = normalized
           THEN GetKey(items, normalized)
      ELSE IF partial # {}
           THEN items[CHOOSE k \in partial : \A j \in partial : k <= j].id
      ELSE NoSpeaker

\* the name detection run on every non-empty segment
DetectOnEverySegment(seg, items, intervention_idx, interventions) ==
  _detect_speaker_in_text(seg, items)

\* the name detection as the loop of map_speakers runs it: inside
\* `if intervention_idx < len(hansard_interventions)`
DetectedInLoop(seg, items, intervention_idx, interventions) ==
  IF intervention_idx < Len(interventions) THEN _detect_speaker_in_text(seg, items)
  ELSE NoSpeaker

\* the loop of map_speakers from segment seg_idx (counted from 0) on;
\* speaker_map is a function of the segment indexes that were mapped
RECURSIVE AlignSegments(_, _, _, _, _, _, _)
AlignSegments(segments, seg_idx, items, interventions, intervention_idx, current_speaker, speaker_map) ==
  IF seg_idx >= Len(segments) THEN speaker_map
  ELSE
    LET seg == segments[seg_idx + 1]
        pending == intervention_idx < Len(interventions)
        similar == /\ pending
                   /\ SimilarityAboveThreshold(TextWords(seg),
                                               interventions[intervention_idx + 1].text)
        speaker_name == interventions[intervention_idx + 1].speaker_name
        matched == IF \E k \in DOMAIN items : items[k].key = speaker_name
                   THEN GetKey(items, speaker_name)
                   ELSE GetKey(items, _normalize_name(speaker_name))
        after_match == IF similar THEN matched ELSE current_speaker
        detected == DetectedInLoop(seg, items, intervention_idx, interventions)
        speaker == IF detected # NoSpeaker THEN detected ELSE after_match
        next_idx == IF similar THEN intervention_idx + 1 ELSE intervention_idx
    IN  IF TextWords(seg) = <<>>
        THEN AlignSegments(segments, seg_idx + 1, items, interventions,
                           intervention_idx, current_speaker, speaker_map)
        ELSE AlignSegments(segments, seg_idx + 1, items, interventions, next_idx, speaker,
                           IF speaker # NoSpeaker THEN speaker_map @@ (seg_idx :> speaker)
                           ELSE speaker_map)

\* the dict map_speakers returns: keyed by segment index, or, on the early
\* returns after step 1, speaker_name_to_id, keyed by name
map_speakers(segments, hansard_data) ==
  LET items == SpeakerNameToId(hansard_data.speakers)
  IN  IF ~hansard_data.available THEN [keys |-> "segments", map |-> <<>>]
      ELSE IF hansard_data.interventions = <<>> \/ segments = <<>>
           THEN [keys |-> "names", map |-> items]
      ELSE [keys |-> "segments",
            map |-> AlignSegments(segments, 0, items, hansard_data.interventions, 0,
                                  NoSpeaker, <<>>)]

\* speaker_mappings.get(str(seg_idx)): no name is the text of a number
SegmentSpeaker(speaker_mappings, seg_idx) ==
  IF speaker_mappings.keys = "segments" /\ seg_idx \in DOMAIN speaker_mappings.map
  THEN speaker_mappings.map[seg_idx]
  ELSE NoSpeaker

\* len(full_text.split()) of the segments with these indexes
RECURSIVE WordCount(_, _)
WordCount(segments, indexes) ==
  IF indexes = <<>> THEN 0
  ELSE Len(TextWords(segments[Head(indexes) + 1])) + WordCount(segments, Tail(indexes))

\* a contribution of any length but zero
_build_contribution_keeps_short(segments, speaker_id, indexes, sequence_order) ==
  IF indexes = <<>> \/ WordCount(segments, indexes) = 0 THEN <<>>
  ELSE <<[speaker_id |-> speaker_id, first |-> Head(indexes),
          last |-> indexes[Len(indexes)], words |-> WordCount(segments, indexes),
          sequence_order |-> sequence_order]>>

\* _build_contribution: no contribution (<<>>) for no segment, no text or
\* fewer than three words; start and end are those of the first and the last
\* segment
_build_contribution(segments, speaker_id, indexes, sequence_order) ==
  IF indexes = <<>> \/ WordCount(segments, indexes) = 0 THEN <<>>
  ELSE IF WordCount(segments, indexes) < 3 THEN <<>>
  ELSE <<[speaker_id |-> speaker_id, first |-> Head(indexes),
          last |-> indexes[Len(indexes)], words |-> WordCount(segments, indexes),
          sequence_order |-> sequence_order]>>

\* the loop of extract_contributions from segment seg_idx on, with its final
\* flush
RECURSIVE GroupSegments(_, _, _, _, _, _, _)
GroupSegments(segments, speaker_mappings, seg_idx, current_speaker_id, current_segments, sequence_order, contributions) ==
  IF seg_idx >= Len(segments)
  THEN contributions \o _build_contribution(segments, current_speaker_id,
                                            current_segments, sequence_order)
  ELSE
    LET seg_speaker_id == SegmentSpeaker(speaker_mappings, seg_idx)
        flush == seg_speaker_id # current_speaker_id /\ current_segments # <<>>
        contribution == _build_contribution(segments, current_speaker_id,
                                            current_segments, sequence_order)
    IN  IF flush
        THEN GroupSegments(segments, speaker_mappings, seg_idx + 1, seg_speaker_id,
                           <<seg_idx>>, sequence_order + Len(contribution),
                           contributions \o contribution)
        ELSE GroupSegments(segments, speaker_mappings, seg_idx + 1, seg_speaker_id,
                           Append(current_segments, seg_idx), sequence_order,
                           contributions)

\* extract_contributions on the primary transcript (no second transcript)
extract_contributions(segments, speaker_mappings) ==
  IF segments = <<>> THEN <<>>
  ELSE GroupSegments(segments, speaker_mappings, 0, NoSpeaker, <<>>, 0, <<>>)

\* a row scrape_hansard upserts: debate_id and name, no name_normalized
ScrapedSpeaker(debate_id, name) ==
  [debate |-> debate_id, legislature |-> "", name |-> name, name_normalized |-> <<>>]

\* a row _ensure_speaker_in_db inserts: legislature_id, name, name_normalized,
\* no debate_id
MappedSpeaker(code, name) ==
  [debate |-> 0, legislature |-> code, name |-> name,
   name_normalized |-> _normalize_name(name)]

\* upsert(..., on_conflict="debate_id,name"): rows are told apart by that pair,
\* and the columns written are the same on every run
UpsertSpeaker(rows, debate_id, name) == rows \cup {ScrapedSpeaker(debate_id, name)}

\* _ensure_speaker_in_db: a row is inserted when the select by
\* (legislature_id, name_normalized) finds none
_ensure_speaker_in_db(rows, code, name) ==
  IF \E r \in rows : r.legislature = code /\ r.name_normalized = _normalize_name(name)
  THEN rows
  ELSE rows \cup {MappedSpeaker(code, name)}

(* ------------------------------- state -------------------------------- *)
VARIABLES
  budget,          \* allowances of the run: [polls, failures, retriggers]
  source,          \* what each legislature's poller detects: code -> candidates
  debates,         \* table debates: row id -> row
  tables,          \* child tables of each debate: row id -> rows it owns
  queue,           \* broker: bag of task messages not yet taken by a worker
  workers,         \* worker process -> what it is executing
  poll_results,    \* code -> result of the last finished poll of that code
  polls_submitted, \* poll tasks submitted so far
  failures,        \* failures injected so far
  retriggers,      \* retrigger requests served so far
  status_log,      \* row id -> the status values written since its last trigger, as Observed
  poll_triggers,   \* row id -> pipelines a poll run triggered for it
  last_failure,    \* what the last run of mark_debate_error did
  prev_poll,       \* code -> candidates of the last poll run that completed
  retrigger_response, \* the answer POST /api/retrigger is returning, if any
  debate_speakers, \* table debate_speakers: the set of its rows
  stage_runs,      \* bag of <<row id, task>>: the stage task runs that returned
  categorizer,     \* categorize_debate: its two classifications and its result
  aligner          \* process_debate, audio-first: segments, transcript, mapping, contributions

vars == <<budget, source, debates, tables, queue, workers, poll_results,
          polls_submitted, failures, retriggers, status_log, poll_triggers,
          last_failure, prev_poll, retrigger_response, debate_speakers,
          stage_runs, categorizer, aligner>>

Workers == 1..WorkerConcurrency

PollMsg(code) ==
  [kind |-> "poll", code |-> code, debate |-> 0, chain |-> <<>>, retries |-> 0]

StageMsg(debate_id, chain, retries) ==
  [kind |-> "stage", code |-> "", debate |-> debate_id, chain |-> chain,
   retries |-> retries]

IdleWorker ==
  [pc |-> "idle", debate |-> 0, chain |-> <<>>, retries |-> 0,
   current_retries |-> 0, codes |-> <<>>, all |-> FALSE, detected |-> <<>>,
   i |-> 0, existing |-> 0, existing_status |-> "", new_count |-> 0,
   seq |-> FALSE, rows0 |-> 0, error |-> ""]

NoResult == [found |-> 0, new |-> 0, error |-> FALSE, seq |-> FALSE, added |-> 0]

\* {"status": "queued", "debate_id", "from_stage", "pipeline"}, with the
\* messages the request put in the broker
NoResponse == [debate |-> 0, from_stage |-> "", hansard_first |-> FALSE, sent |-> EmptyBag]

NoFailure ==
  [debate |-> 0, task |-> "", nth |-> 0, start |-> 0, status_before |-> "",
   status_after |-> "", requeued |-> FALSE, error |-> ""]

\* categorize_debate not called
NoCategorizer ==
  [keyword_scores |-> <<>>, llm_answer |-> <<>>, returned |-> FALSE, result |-> <<>>]

\* the audio-first branch of process_debate not entered
NoAligner ==
  [pc |-> "none", segments |-> <<>>,
   hansard_data |-> [available |-> FALSE, speakers |-> <<>>, interventions |-> <<>>],
   speaker_mappings |-> [keys |-> "segments", map |-> <<>>], contributions |-> <<>>]

\* workers are interchangeable: a task is taken by the first idle one
FreeWorker(w) ==
  /\ workers[w].pc = "idle"
  /\ \A v \in Workers : v < w => workers[v].pc # "idle"

Ids == DOMAIN debates

\* rows of table debates with this (legislature_id, external_id)
Matching(ds, code, ext) ==
  {id \in DOMAIN ds : ds[id].legislature = code /\ ds[id].external_id = ext}

RowsOf(ds, code) == Cardinality({id \in DOMAIN ds : ds[id].legislature = code})

Min(S) == CHOOSE x \in S : \A y \in S : x <= y

(* --------------------------- retry helpers ---------------------------- *)
\* update_debate_status(debate_id, status): error_message is written only
\* when one is given, and no caller gives one
update_debate_status(ds, debate_id, status) ==
  [ds EXCEPT ![debate_id].status = status]

\* the comparison `current_retries > max_retries`
ExceedsMaxRetriesStrict(current_retries) == current_retries > max_retries

\* mark_debate_error, the branch taken on the retry_count it read
ExceedsMaxRetries(current_retries) == current_retries >= max_retries

\* the row update whose exhausted branch writes the plain message
mark_debate_error_plain_message(ds, debate_id, current_retries) ==
  IF ExceedsMaxRetries(current_retries)
  THEN [ds EXCEPT ![debate_id].status = "error",
                  ![debate_id].error_message = ErrMessage,
                  ![debate_id].retry_count = current_retries + 1]
  ELSE [ds EXCEPT ![debate_id].error_message = ErrMessage,
                  ![debate_id].retry_count = current_retries + 1]

\* mark_debate_error, the row update of either branch
mark_debate_error(ds, debate_id, current_retries) ==
  IF ExceedsMaxRetries(current_retries)
  THEN [ds EXCEPT ![debate_id].status = "error",
                  ![debate_id].error_message = MaxRetriesMessage,
                  ![debate_id].retry_count = current_retries + 1]
  ELSE [ds EXCEPT ![debate_id].error_message = ErrMessage,
                  ![debate_id].retry_count = current_retries + 1]

\* every task of the stage list sent at once, each as a message of its own
trigger_debate_group(q, debate_id, from_stage, hansard_first) ==
  LET tasks == StageTasks(from_stage, hansard_first)
  IN  q (+) SetToBag({StageMsg(debate_id, <<tasks[k]>>, 0) : k \in DOMAIN tasks})

\* trigger_debate_pipeline: the chain is sent as one message whose first task
\* runs with debate_id and whose later tasks run on the result of the one before
trigger_debate_pipeline(q, debate_id, from_stage, hansard_first) ==
  LET tasks == StageTasks(from_stage, hansard_first)
  IN  IF tasks = <<>> THEN q
      ELSE q (+) SetToBag({StageMsg(debate_id, tasks, 0)})

(* ---------------------- observer of status writes ---------------------- *)
\* the two chains of status values
HansardSequence ==
  <<"detected", "scraping_hansard", "processing", "summarizing", "categorizing",
    "publishing", "published">>

LegacySequence ==
  <<"detected", "ingesting", "transcribing", "processing", "summarizing",
    "categorizing", "publishing", "published">>

\* how far the writes so far spell seq: the number of values written while
\* they were its prefix, Len(seq) + 1 once a write has left it
Step(seq, pos, status) ==
  IF pos < Len(seq) /\ seq[pos + 1] = status THEN pos + 1 ELSE Len(seq) + 1

\* the record of the writes to one row: how many, and how far they spell each chain
NoWrites == [hansard |-> 0, legacy |-> 0]

Observe(log, status) ==
  [hansard |-> Step(HansardSequence, log.hansard, status),
   legacy |-> Step(LegacySequence, log.legacy, status)]

RECURSIVE ObserveAll(_, _)
ObserveAll(log, statuses) ==
  IF statuses = <<>> THEN log
  ELSE ObserveAll(Observe(log, Head(statuses)), Tail(statuses))

(* ------------------------------- store -------------------------------- *)
\* the unique key (legislature_id, external_id) of table debates
InsertAcceptedNoKey(ds, code, ext) == TRUE

InsertAccepted(ds, code, ext) == Matching(ds, code, ext) = {}

NewRow(code, info) ==
  [legislature |-> code, external_id |-> info.external_id,
   status |-> info.status, retry_count |-> 0, error_message |-> NoMessage,
   hansard_scraped |-> FALSE]

NoChildren ==
  [media |-> 0, media_dir |-> FALSE, transcripts |-> 0, contributions |-> <<>>,
   summaries |-> {}, categories |-> 0, forum_posts |-> 0]

(* -------------------------------- init -------------------------------- *)
Sitting(st, recent) == [external_id |-> "s1", status |-> st, recent |-> recent]

\* one legislature has one sitting on its calendar, announced (a status only
\* the federal poller reports) or with its transcript out; the table is empty,
\* or holds the row an earlier poll run stored for the sitting when it was
\* announced
InitState ==
  /\ \E code \in {"CA", "ON"}, st \in {"scheduled", "detected"}, recent \in BOOLEAN,
        stored \in BOOLEAN :
       /\ (st = "scheduled" \/ stored) => code = "CA"
       /\ source = [c \in Codes |-> IF c = code THEN <<Sitting(st, recent)>> ELSE <<>>]
       /\ debates = IF stored THEN <<NewRow(code, Sitting("scheduled", recent))>> ELSE <<>>
       /\ tables = IF stored THEN <<NoChildren>> ELSE <<>>
       /\ status_log = IF stored THEN <<Observe(NoWrites, "scheduled")>> ELSE <<>>
       /\ poll_triggers = IF stored THEN <<0>> ELSE <<>>
  /\ queue = EmptyBag
  /\ workers = [w \in Workers |-> IdleWorker]
  /\ poll_results = [c \in Codes |-> NoResult]
  /\ polls_submitted = 0
  /\ failures = 0
  /\ retriggers = 0
  /\ last_failure = NoFailure
  /\ prev_poll = [c \in Codes |-> [done |-> FALSE, detected |-> <<>>]]
  /\ retrigger_response = NoResponse
  /\ debate_speakers = {}
  /\ stage_runs = EmptyBag
  /\ categorizer = NoCategorizer
  /\ aligner = NoAligner

\* one poll task, failing collaborators, no administrator: every debate has
\* at most one chain in flight
ChainRun == [polls |-> 1, failures |-> MaxFailures, retriggers |-> 0]

\* poll tasks that may overlap, collaborators that answer, no administrator
PollRun == [polls |-> MaxPolls, failures |-> 0, retriggers |-> 0]

\* one poll task, collaborators that answer, an administrator who retriggers
AdminRun == [polls |-> 1, failures |-> 0, retriggers |-> MaxRetriggers]

Init ==
  /\ budget \in {ChainRun, PollRun, AdminRun}
  /\ InitState


(* ------------------------------ polling ------------------------------- *)
\* POST /api/poll: poll_single_source.delay(code), or poll_all_sources.delay()
\* when the request names no legislature
trigger_poll(code) ==
  /\ polls_submitted < budget.polls
  /\ queue' = queue (+) SetToBag({PollMsg(code)})
  /\ polls_submitted' = polls_submitted + 1
  /\ UNCHANGED <<budget, source, debates, tables, workers, poll_results, failures,
                 retriggers, status_log, poll_triggers, last_failure, prev_poll>>
  /\ retrigger_response' = NoResponse
  /\ UNCHANGED <<debate_speakers, stage_runs, categorizer, aligner>>

\* beat_schedule "poll-all-sources"
beat_poll_all_sources ==
  /\ polls_submitted < budget.polls
  /\ queue' = queue (+) SetToBag({PollMsg("ALL")})
  /\ polls_submitted' = polls_submitted + 1
  /\ UNCHANGED <<budget, source, debates, tables, workers, poll_results, failures,
                 retriggers, status_log, poll_triggers, last_failure, prev_poll>>
  /\ retrigger_response' = NoResponse
  /\ UNCHANGED <<debate_speakers, stage_runs, categorizer, aligner>>

\* the legislature publishes the transcript of a sitting it had announced
SourcePublish(code, k) ==
  /\ k \in DOMAIN source[code]
  /\ source[code][k].status = "scheduled"
  /\ source' = [source EXCEPT ![code][k].status = "detected"]
  /\ UNCHANGED <<budget, debates, tables, queue, workers, poll_results,
                 polls_submitted, failures, retriggers, status_log, poll_triggers,
                 last_failure, prev_poll>>
  /\ retrigger_response' = NoResponse
  /\ UNCHANGED <<debate_speakers, stage_runs, categorizer, aligner>>

\* a worker is between detect_new_debates and the end of its loop for code
ActiveOn(v, code) ==
  /\ workers[v].pc \in {"select", "write"}
  /\ Head(workers[v].codes) = code

\* the worker after poll_single_source(code) has returned or raised:
\* poll_all_sources goes on with the next code, poll_single_source is over
AfterCode(wk) ==
  IF Tail(wk.codes) = <<>> THEN IdleWorker
  ELSE [IdleWorker EXCEPT !.pc = "detect", !.codes = Tail(wk.codes), !.all = wk.all]

\* a worker takes a poll task from the polling queue
PollTake(w, m) ==
  /\ FreeWorker(w)
  /\ BagIn(m, queue)
  /\ m.kind = "poll"
  /\ queue' = queue (-) SetToBag({m})
  /\ workers' = [workers EXCEPT ![w] =
       [IdleWorker EXCEPT !.pc = "detect",
                          !.codes = IF m.code = "ALL" THEN LEGISLATURE_CODES ELSE <<m.code>>,
                          !.all = (m.code = "ALL")]]
  /\ UNCHANGED <<budget, source, debates, tables, poll_results, polls_submitted,
                 failures, retriggers, status_log, poll_triggers, last_failure,
                 prev_poll>>
  /\ retrigger_response' = NoResponse
  /\ UNCHANGED <<debate_speakers, stage_runs, categorizer, aligner>>

\* poll_single_source up to the loop: detected = poller.detect_new_debates(...)
PollDetect(w) ==
  /\ workers[w].pc = "detect"
  /\ LET wk == workers[w]
         code == Head(wk.codes)
         detected == source[code]
         alone == \A v \in Workers : v # w => ~ActiveOn(v, code)
         seq == prev_poll[code].done /\ prev_poll[code].detected = detected /\ alone
     IN  IF detected = <<>>
         THEN /\ workers' = [workers EXCEPT ![w] = AfterCode(wk)]
              /\ poll_results' = [poll_results EXCEPT ![code] =
                   [found |-> 0, new |-> 0, error |-> FALSE, seq |-> seq, added |-> 0]]
              /\ prev_poll' = [prev_poll EXCEPT ![code] = [done |-> TRUE, detected |-> <<>>]]
         ELSE /\ workers' = [v \in Workers |->
                   IF v = w
                   THEN [wk EXCEPT !.pc = "select", !.detected = detected, !.i = 1,
                                   !.new_count = 0, !.seq = seq,
                                   !.rows0 = RowsOf(debates, code)]
                   ELSE IF ActiveOn(v, code) THEN [workers[v] EXCEPT !.seq = FALSE]
                   ELSE workers[v]]
              /\ UNCHANGED <<poll_results, prev_poll>>
  /\ UNCHANGED <<budget, source, debates, tables, queue, polls_submitted, failures,
                 retriggers, status_log, poll_triggers, last_failure>>
  /\ retrigger_response' = NoResponse
  /\ UNCHANGED <<debate_speakers, stage_runs, categorizer, aligner>>

\* the loop body's select of (legislature_id, external_id)
PollSelect(w) ==
  /\ workers[w].pc = "select"
  /\ LET wk == workers[w]
         ids == Matching(debates, Head(wk.codes), wk.detected[wk.i].external_id)
     IN  workers' = [workers EXCEPT ![w] =
           [wk EXCEPT !.pc = "write",
                      !.existing = IF ids = {} THEN 0 ELSE Min(ids),
                      !.existing_status = IF ids = {} THEN "" ELSE debates[Min(ids)].status]]
  /\ UNCHANGED <<budget, source, debates, tables, queue, poll_results,
                 polls_submitted, failures, retriggers, status_log, poll_triggers,
                 last_failure, prev_poll>>
  /\ retrigger_response' = NoResponse
  /\ UNCHANGED <<debate_speakers, stage_runs, categorizer, aligner>>

\* existing_status == "scheduled" and debate_status == "detected"
ShouldTransitionAnyCandidate(existing_status, debate_status) ==
  existing_status = "scheduled"

ShouldTransition(existing_status, debate_status) ==
  existing_status = "scheduled" /\ debate_status = "detected"

\* a new row is auto-triggered when detected and dated today or the last 2 days
ShouldAutoTrigger(debate_status, recent) ==
  debate_status = "detected" /\ recent

\* the rest of the loop body: update-and-trigger, skip, or insert(-and-trigger)
PollWrite(w) ==
  /\ workers[w].pc = "write"
  /\ LET wk == workers[w]
         code == Head(wk.codes)
         info == wk.detected[wk.i]
         transition == wk.existing # 0 /\ ShouldTransition(wk.existing_status, info.status)
         insert == wk.existing = 0
         accepted == insert /\ InsertAccepted(debates, code, info.external_id)
         raised == insert /\ ~accepted
         new_id == Len(debates) + 1
         triggered == IF transition THEN wk.existing
                      ELSE IF accepted /\ ShouldAutoTrigger(info.status, info.recent)
                      THEN new_id ELSE 0
         ds == IF transition
               THEN [debates EXCEPT ![wk.existing].status = "detected",
                                    ![wk.existing].hansard_scraped = FALSE]
               ELSE IF accepted THEN Append(debates, NewRow(code, info))
               ELSE debates
         wk1 == [wk EXCEPT !.new_count = IF transition \/ accepted THEN @ + 1 ELSE @]
         result == [found |-> Len(wk.detected), new |-> wk1.new_count, error |-> FALSE,
                    seq |-> wk.seq, added |-> RowsOf(ds, code) - wk.rows0]
     IN  /\ debates' = ds
         /\ tables' = IF accepted THEN Append(tables, NoChildren) ELSE tables
         /\ status_log' =
              IF transition THEN [status_log EXCEPT ![wk.existing] = Observe(NoWrites, "detected")]
              ELSE IF accepted THEN Append(status_log, Observe(NoWrites, info.status))
              ELSE status_log
         /\ poll_triggers' =
              IF transition THEN [poll_triggers EXCEPT ![wk.existing] = @ + 1]
              ELSE IF accepted THEN Append(poll_triggers, IF triggered = 0 THEN 0 ELSE 1)
              ELSE poll_triggers
         /\ queue' = IF triggered = 0 THEN queue
                     ELSE trigger_debate_pipeline(queue, triggered, "detected", code = "CA")
         /\ IF raised
            THEN /\ workers' = [workers EXCEPT ![w] = AfterCode(wk)]
                 /\ poll_results' = [poll_results EXCEPT ![code] =
                      [found |-> 0, new |-> 0, error |-> TRUE, seq |-> wk.seq, added |-> 0]]
                 /\ prev_poll' = [prev_poll EXCEPT ![code].done = FALSE]
            ELSE IF wk.i = Len(wk.detected)
            THEN /\ workers' = [workers EXCEPT ![w] = AfterCode(wk)]
                 /\ poll_results' = [poll_results EXCEPT ![code] = result]
                 /\ prev_poll' = [prev_poll EXCEPT ![code] =
                      [done |-> TRUE, detected |-> wk.detected]]
            ELSE /\ workers' = [workers EXCEPT ![w] =
                      [wk1 EXCEPT !.pc = "select", !.i = @ + 1]]
                 /\ UNCHANGED <<poll_results, prev_poll>>
  /\ UNCHANGED <<budget, source, polls_submitted, failures, retriggers, last_failure>>
  /\ retrigger_response' = NoResponse
  /\ UNCHANGED <<debate_speakers, stage_runs, categorizer, aligner>>


(* ------------------------------- stages ------------------------------- *)
\* transcribe_debate: languages by legislature code
Languages(code) == IF code = "CA" THEN <<"en", "fr">> ELSE IF code = "QC" THEN <<"fr">> ELSE <<"en">>

\* contributions extract_contributions may return for the stored transcripts
ExtractedCounts == {0, 1}

\* sequence_order values 0 .. n-1
Orders(n) == [k \in 1..n |-> k - 1]

\* what the body of a stage task needs in the store to run to its end when
\* every external collaborator answers
CanSucceed(task, debate_id) ==
  CASE task = "transcribe_debate" -> tables[debate_id].media > 0
    [] task = "process_debate" ->
         IF debates[debate_id].hansard_scraped
         THEN tables[debate_id].contributions # <<>>
         ELSE tables[debate_id].transcripts > 0
    [] task = "summarize_debate" -> ~GenerateSummaryRaises
    [] OTHER -> TRUE

\* the status writes of a task body after the entering one
BodyStatus(task) ==
  CASE task = "summarize_debate" -> <<"categorizing">>
    [] task = "publish_debate" -> <<"published">>
    [] OTHER -> <<>>

\* the metadata update placed before the test of total_speeches
ScrapedDebatesFlagFirst(ds, debate_id, total_speeches) ==
  [ds EXCEPT ![debate_id].hansard_scraped = TRUE]

\* scrape_hansard up to its metadata update: `total_speeches == 0` raises
\* before anything is written
ScrapedDebates(ds, debate_id, total_speeches) ==
  IF total_speeches = 0 THEN ds
  ELSE [ds EXCEPT ![debate_id].hansard_scraped = TRUE]

\* a body that ends by writing retry_count 0
BodyDebatesResetCount(task, debate_id) ==
  LET ds == [debates EXCEPT ![debate_id].retry_count = 0]
  IN  CASE task = "scrape_hansard" -> [ds EXCEPT ![debate_id].hansard_scraped = TRUE]
        [] task = "summarize_debate" -> update_debate_status(ds, debate_id, "categorizing")
        [] task = "publish_debate" -> update_debate_status(ds, debate_id, "published")
        [] OTHER -> ds

\* table debates after the body of a task has run to its end
BodyDebates(task, debate_id) ==
  CASE task = "scrape_hansard" -> ScrapedDebates(debates, debate_id, SpeechCount)
    [] task = "summarize_debate" -> update_debate_status(debates, debate_id, "categorizing")
    [] task = "publish_debate" -> update_debate_status(debates, debate_id, "published")
    [] OTHER -> debates

\* child tables after the body of a task has run to its end; n is the number
\* of contributions extracted from the transcripts (legacy process_debate).
\* summaries holds the languages with a row (an upsert on debate_id,language),
\* categories the number of rows with is_primary (one per list inserted),
\* media_dir whether <media_storage_path>/<debate_id> exists (download_media
\* makes it; no stage task calls cleanup_media)
BodyTables(task, debate_id, n) ==
  CASE task = "scrape_hansard" ->
         [tables EXCEPT ![debate_id].contributions = @ \o Orders(SpeechCount)]
    [] task = "ingest_debate" ->
         [tables EXCEPT ![debate_id].media = @ + 1, ![debate_id].media_dir = TRUE]
    [] task = "transcribe_debate" ->
         [tables EXCEPT ![debate_id].transcripts =
            @ + Len(Languages(debates[debate_id].legislature))]
    [] task = "process_debate" ->
         IF debates[debate_id].hansard_scraped THEN tables
         ELSE [tables EXCEPT ![debate_id].contributions = @ \o Orders(n)]
    [] task = "summarize_debate" ->
         [tables EXCEPT ![debate_id].summaries = @ \cup {"en", "fr"},
                        ![debate_id].categories = @ + 1]
    [] task = "publish_debate" -> [tables EXCEPT ![debate_id].forum_posts = @ + 1]
    [] OTHER -> tables

\* table debate_speakers after the body of a task has run to its end; name is
\* the speaker the transcript names (<<>>: fetch_and_parse_hansard found no
\* transcript for the legacy pipeline)
BodySpeakers(task, debate_id, name) ==
  CASE task = "scrape_hansard" -> UpsertSpeaker(debate_speakers, debate_id, name)
    [] task = "process_debate" ->
         IF debates[debate_id].hansard_scraped \/ name = <<>> THEN debate_speakers
         ELSE _ensure_speaker_in_db(debate_speakers, debates[debate_id].legislature, name)
    [] OTHER -> debate_speakers

\* a worker takes a stage task; the task's first statement is
\* update_debate_status(debate_id, <entering status>)
StageEnter(w, m) ==
  /\ FreeWorker(w)
  /\ BagIn(m, queue)
  /\ m.kind = "stage"
  /\ queue' = queue (-) SetToBag({m})
  /\ debates' = update_debate_status(debates, m.debate, EnterStatus(Head(m.chain)))
  /\ status_log' = [status_log EXCEPT ![m.debate] = Observe(@, EnterStatus(Head(m.chain)))]
  /\ workers' = [workers EXCEPT ![w] =
       [IdleWorker EXCEPT !.pc = "work", !.debate = m.debate, !.chain = m.chain,
                          !.retries = m.retries]]
  /\ UNCHANGED <<budget, source, tables, poll_results, polls_submitted, failures,
                 retriggers, poll_triggers, last_failure, prev_poll>>
  /\ retrigger_response' = NoResponse
  /\ UNCHANGED <<debate_speakers, stage_runs, categorizer, aligner>>

\* a worker takes a stage task and the store is unavailable for the entering
\* update_debate_status, which is outside the try block: the exception leaves
\* the task, and the message is acknowledged as for any failed task
StageEnterFail(w, m) ==
  /\ FreeWorker(w)
  /\ BagIn(m, queue)
  /\ m.kind = "stage"
  /\ failures < budget.failures
  /\ failures' = failures + 1
  /\ queue' = queue (-) SetToBag({m})
  /\ UNCHANGED <<budget, source, debates, tables, workers, poll_results,
                 polls_submitted, retriggers, status_log, poll_triggers,
                 last_failure, prev_poll>>
  /\ retrigger_response' = NoResponse
  /\ UNCHANGED <<debate_speakers, stage_runs, categorizer, aligner>>

\* the try block runs to its end and the task returns debate_id: the chain
\* sends the next task
StageSucceed(w, n, name) ==
  /\ workers[w].pc = "work"
  /\ LET wk == workers[w]
         task == Head(wk.chain)
         rest == Tail(wk.chain)
         legacy == task = "process_debate" /\ ~debates[wk.debate].hansard_scraped
     IN  /\ CanSucceed(task, wk.debate)
         /\ n # 0 => legacy
         /\ task = "scrape_hansard" => name # <<>>
         /\ name # <<>> => (task = "scrape_hansard" \/ legacy)
         /\ debate_speakers' = BodySpeakers(task, wk.debate, name)
         /\ stage_runs' = stage_runs (+) SetToBag({<<wk.debate, task>>})
         /\ UNCHANGED <<categorizer, aligner>>
         /\ debates' = BodyDebates(task, wk.debate)
         /\ tables' = BodyTables(task, wk.debate, n)
         /\ status_log' = [status_log EXCEPT ![wk.debate] = ObserveAll(@, BodyStatus(task))]
         /\ queue' = IF rest = <<>> THEN queue
                     ELSE queue (+) SetToBag({StageMsg(wk.debate, rest, 0)})
         /\ workers' = [workers EXCEPT ![w] = IdleWorker]
  /\ UNCHANGED <<budget, source, poll_results, polls_submitted, failures, retriggers,
                 poll_triggers, last_failure, prev_poll>>
  /\ retrigger_response' = NoResponse

\* what a collaborator may raise: the store is unavailable, or a row the
\* stage needs (the legislature, the debate) is not there
CollaboratorErrors == {"StoreUnavailable", "NotFound"}

\* what the try block itself raises
RaisedError(task) == IF task = "summarize_debate" THEN "TypeError" ELSE "ValueError"

\* an external collaborator raises in the try block; `except Exception` takes
\* every error alike: the handler calls mark_debate_error, which first selects
\* retry_count.  late: the store raises on the insert of the categories, after
\* summarize_debate has stored both summaries and written categorizing
StageFail(w, error, late) ==
  /\ workers[w].pc = "work"
  /\ CanSucceed(Head(workers[w].chain), workers[w].debate)
  /\ late => Head(workers[w].chain) = "summarize_debate"
  /\ failures < budget.failures
  /\ failures' = failures + 1
  /\ workers' = [workers EXCEPT ![w].pc = "mark", ![w].error = error,
                                ![w].current_retries = debates[workers[w].debate].retry_count]
  /\ IF late
     THEN LET d == workers[w].debate
          IN  /\ debates' = update_debate_status(debates, d, "categorizing")
              /\ tables' = [tables EXCEPT ![d].summaries = @ \cup {"en", "fr"}]
              /\ status_log' = [status_log EXCEPT ![d] = Observe(@, "categorizing")]
     ELSE UNCHANGED <<debates, tables, status_log>>
  /\ UNCHANGED <<budget, source, queue, poll_results, polls_submitted, retriggers,
                 poll_triggers, last_failure, prev_poll>>
  /\ retrigger_response' = NoResponse
  /\ UNCHANGED <<debate_speakers, stage_runs, categorizer, aligner>>

\* scrape_hansard_for_date answers with no speech for the sitting date (the
\* transcript is not out yet): scrape_hansard raises ValueError
ScrapeNoSpeeches(w) ==
  /\ workers[w].pc = "work"
  /\ Head(workers[w].chain) = "scrape_hansard"
  /\ failures < budget.failures
  /\ failures' = failures + 1
  /\ debates' = ScrapedDebates(debates, workers[w].debate, 0)
  /\ workers' = [workers EXCEPT ![w].pc = "mark", ![w].error = "NoSpeeches",
                                ![w].current_retries = debates'[workers[w].debate].retry_count]
  /\ UNCHANGED <<budget, source, tables, queue, poll_results, polls_submitted,
                 retriggers, status_log, poll_triggers, last_failure, prev_poll>>
  /\ retrigger_response' = NoResponse
  /\ UNCHANGED <<debate_speakers, stage_runs, categorizer, aligner>>

\* the try block raises on what the store holds (no media asset, no
\* transcripts, no contributions) or on the call of generate_summary
StageRaise(w) ==
  /\ workers[w].pc = "work"
  /\ ~CanSucceed(Head(workers[w].chain), workers[w].debate)
  /\ workers' = [workers EXCEPT ![w].pc = "mark",
                                ![w].error = RaisedError(Head(workers[w].chain)),
                                ![w].current_retries = debates[workers[w].debate].retry_count]
  /\ UNCHANGED <<budget, source, debates, tables, queue, poll_results,
                 polls_submitted, failures, retriggers, status_log, poll_triggers,
                 last_failure, prev_poll>>
  /\ retrigger_response' = NoResponse
  /\ UNCHANGED <<debate_speakers, stage_runs, categorizer, aligner>>

\* mark_debate_error writes the row; then `raise self.retry(exc=e)` when it
\* returned True, a plain `raise` otherwise
MarkError(w) ==
  /\ workers[w].pc = "mark"
  /\ LET wk == workers[w]
         task == Head(wk.chain)
         can_retry == ~ExceedsMaxRetries(wk.current_retries)
         requeued == can_retry /\ RetryAllowed(task, wk.retries)
         ds == mark_debate_error(debates, wk.debate, wk.current_retries)
     IN  /\ debates' = ds
         /\ status_log' = IF can_retry THEN status_log
                          ELSE [status_log EXCEPT ![wk.debate] = Observe(@, "error")]
         /\ queue' = IF requeued
                     THEN queue (+) SetToBag({StageMsg(wk.debate, wk.chain, wk.retries + 1)})
                     ELSE queue
         /\ last_failure' =
              [debate |-> wk.debate, task |-> task, nth |-> wk.retries + 1,
               start |-> wk.current_retries - wk.retries,
               status_before |-> debates[wk.debate].status,
               status_after |-> ds[wk.debate].status, requeued |-> requeued,
               error |-> wk.error]
         /\ workers' = [workers EXCEPT ![w] = IdleWorker]
  /\ UNCHANGED <<budget, source, tables, poll_results, polls_submitted, failures,
                 retriggers, poll_triggers, prev_poll>>
  /\ retrigger_response' = NoResponse
  /\ UNCHANGED <<debate_speakers, stage_runs, categorizer, aligner>>

(* ------------------------------ retrigger ----------------------------- *)
\* the update that also writes retry_count 0
ResetDebateAndCount(ds, debate_id, from_stage) ==
  [ds EXCEPT ![debate_id].status = from_stage,
             ![debate_id].error_message = NoMessage,
             ![debate_id].retry_count = 0]

\* retrigger_debate: update({"status": from_stage, "error_message": None})
ResetDebate(ds, debate_id, from_stage) ==
  [ds EXCEPT ![debate_id].status = from_stage,
             ![debate_id].error_message = NoMessage]

\* POST /api/retrigger
retrigger_debate(debate_id, from_stage, hansard_first) ==
  /\ retriggers < budget.retriggers
  /\ debate_id \in Ids
  /\ retriggers' = retriggers + 1
  /\ debates' = ResetDebate(debates, debate_id, from_stage)
  /\ status_log' = [status_log EXCEPT ![debate_id] = Observe(NoWrites, from_stage)]
  /\ queue' = trigger_debate_pipeline(queue, debate_id, from_stage, hansard_first)
  /\ prev_poll' = [prev_poll EXCEPT ![debates[debate_id].legislature].done = FALSE]
  /\ workers' = [v \in Workers |->
       IF ActiveOn(v, debates[debate_id].legislature)
       THEN [workers[v] EXCEPT !.seq = FALSE] ELSE workers[v]]
  /\ UNCHANGED <<budget, source, tables, poll_results, polls_submitted, failures,
                 poll_triggers, last_failure, debate_speakers, stage_runs,
                 categorizer, aligner>>
  /\ retrigger_response' =
       [debate |-> debate_id, from_stage |-> from_stage, hansard_first |-> hansard_first,
        sent |-> queue' (-) queue]

(* ------------------------------- specs -------------------------------- *)
PollCodes == Codes \cup {"ALL"}

Messages == BagToSet(queue)

Next ==
  \/ \E code \in PollCodes : trigger_poll(code)
  \/ beat_poll_all_sources
  \/ \E code \in Codes, k \in 1..1 : SourcePublish(code, k)
  \/ \E w \in Workers, m \in Messages : PollTake(w, m)
  \/ \E w \in Workers : PollDetect(w)
  \/ \E w \in Workers : PollSelect(w)
  \/ \E w \in Workers : PollWrite(w)
  \/ \E w \in Workers, m \in Messages : StageEnter(w, m)
  \/ \E w \in Workers, m \in Messages : StageEnterFail(w, m)
  \/ \E w \in Workers, n \in ExtractedCounts, name \in SpeakerNames \cup {<<>>} :
       StageSucceed(w, n, name)
  \/ \E w \in Workers, error \in CollaboratorErrors, late \in BOOLEAN :
       StageFail(w, error, late)
  \/ \E w \in Workers : ScrapeNoSpeeches(w)
  \/ \E w \in Workers : StageRaise(w)
  \/ \E w \in Workers : MarkError(w)
  \/ \E d \in Ids, from_stage \in FromStages, hansard_first \in BOOLEAN :
       retrigger_debate(d, from_stage, hansard_first)

Spec == Init /\ [][Next]_vars


\* the runs of ChainRun
InitChain ==
  /\ budget = ChainRun
  /\ InitState

NextChain ==
  \/ \E code \in PollCodes : trigger_poll(code)
  \/ beat_poll_all_sources
  \/ \E code \in Codes, k \in 1..1 : SourcePublish(code, k)
  \/ \E w \in Workers, m \in Messages : PollTake(w, m)
  \/ \E w \in Workers : PollDetect(w)
  \/ \E w \in Workers : PollSelect(w)
  \/ \E w \in Workers : PollWrite(w)
  \/ \E w \in Workers, m \in Messages : StageEnter(w, m)
  \/ \E w \in Workers, m \in Messages : StageEnterFail(w, m)
  \/ \E w \in Workers, n \in ExtractedCounts, name \in SpeakerNames \cup {<<>>} :
       StageSucceed(w, n, name)
  \/ \E w \in Workers, error \in CollaboratorErrors, late \in BOOLEAN :
       StageFail(w, error, late)
  \/ \E w \in Workers : ScrapeNoSpeeches(w)
  \/ \E w \in Workers : StageRaise(w)
  \/ \E w \in Workers : MarkError(w)

SpecChain == InitChain /\ [][NextChain]_vars

\* the runs of PollRun
InitPoll ==
  /\ budget = PollRun
  /\ InitState

NextPoll ==
  \/ \E code \in PollCodes : trigger_poll(code)
  \/ beat_poll_all_sources
  \/ \E code \in Codes, k \in 1..1 : SourcePublish(code, k)
  \/ \E w \in Workers, m \in Messages : PollTake(w, m)
  \/ \E w \in Workers : PollDetect(w)
  \/ \E w \in Workers : PollSelect(w)
  \/ \E w \in Workers : PollWrite(w)
  \/ \E w \in Workers, m \in Messages : StageEnter(w, m)
  \/ \E w \in Workers, n \in ExtractedCounts, name \in SpeakerNames \cup {<<>>} :
       StageSucceed(w, n, name)
  \/ \E w \in Workers : StageRaise(w)
  \/ \E w \in Workers : MarkError(w)

SpecPoll == InitPoll /\ [][NextPoll]_vars

\* the federal debate whose transcript-first chain, triggered by a poll run,
\* has exhausted its retries in summarize_debate
ExhaustedRow ==
  [legislature |-> "CA", external_id |-> "s1", status |-> "error",
   retry_count |-> max_retries + 1, error_message |-> MaxRetriesMessage,
   hansard_scraped |-> TRUE]

ExhaustedChildren ==
  [media |-> 0, media_dir |-> FALSE, transcripts |-> 0,
   contributions |-> Orders(SpeechCount), summaries |-> {}, categories |-> 0,
   forum_posts |-> 0]

\* the runs that returned in that chain
ExhaustedRuns == SetToBag({<<1, "scrape_hansard">>, <<1, "process_debate">>})

ExhaustedLog ==
  ObserveAll(NoWrites, <<"detected", "scraping_hansard", "processing", "summarizing",
                         "summarizing", "error">>)

\* an administrator retriggers a debate no poll run is touching: the row is
\* stored as announced, or as an older sitting no poll run triggered, or is
\* the exhausted federal debate
InitAdmin ==
  /\ budget = [polls |-> 0, failures |-> 0, retriggers |-> MaxRetriggers]
  /\ \E code \in {"CA", "ON"}, st \in {"scheduled", "detected", "error"},
        name \in SpeakerNames :
       /\ st # "detected" => code = "CA"
       /\ debate_speakers = IF st = "error" THEN {ScrapedSpeaker(1, name)} ELSE {}
       /\ stage_runs = IF st = "error" THEN ExhaustedRuns ELSE EmptyBag
       /\ source = [c \in Codes |->
            IF c # code THEN <<>>
            ELSE IF st = "error" THEN <<Sitting("detected", TRUE)>>
            ELSE <<Sitting(st, FALSE)>>]
       /\ debates = IF st = "error" THEN <<ExhaustedRow>>
                    ELSE <<NewRow(code, Sitting(st, FALSE))>>
       /\ status_log = IF st = "error" THEN <<ExhaustedLog>>
                       ELSE <<Observe(NoWrites, st)>>
       /\ tables = IF st = "error" THEN <<ExhaustedChildren>> ELSE <<NoChildren>>
       /\ poll_triggers = IF st = "error" THEN <<1>> ELSE <<0>>
  /\ queue = EmptyBag
  /\ workers = [w \in Workers |-> IdleWorker]
  /\ poll_results = [c \in Codes |-> NoResult]
  /\ polls_submitted = 0
  /\ failures = 0
  /\ retriggers = 0
  /\ last_failure = NoFailure
  /\ prev_poll = [c \in Codes |-> [done |-> FALSE, detected |-> <<>>]]
  /\ retrigger_response = NoResponse
  /\ categorizer = NoCategorizer
  /\ aligner = NoAligner

NextAdmin ==
  \/ \E w \in Workers, m \in Messages : StageEnter(w, m)
  \/ \E w \in Workers, n \in ExtractedCounts, name \in SpeakerNames \cup {<<>>} :
       StageSucceed(w, n, name)
  \/ \E w \in Workers : StageRaise(w)
  \/ \E w \in Workers : MarkError(w)
  \/ \E d \in Ids, from_stage \in FromStages, hansard_first \in BOOLEAN :
       retrigger_debate(d, from_stage, hansard_first)

SpecAdmin == InitAdmin /\ [][NextAdmin]_vars

\* categorize_debate on what _keyword_classify and the LLM answered
categorize_debate ==
  /\ ~categorizer.returned
  /\ categorizer' =
       [categorizer EXCEPT
          !.returned = TRUE,
          !.result = _merge_classifications(categorizer.keyword_scores,
                                            _llm_classify(categorizer.llm_answer))]
  /\ UNCHANGED <<budget, source, debates, tables, queue, workers, poll_results,
                 polls_submitted, failures, retriggers, status_log, poll_triggers,
                 last_failure, prev_poll, debate_speakers, stage_runs, aligner>>
  /\ retrigger_response' = NoResponse

\* the answers of the LLM: up to MaxLlmCategories categories
LlmAnswers ==
  UNION {[1..n -> [topic_slug : LlmSlugs, confidence : LlmConfidences]] :
           n \in 0..MaxLlmCategories}

\* the categoriser alone, on every pair of classifications
InitCategorize ==
  /\ budget = [polls |-> 0, failures |-> 0, retriggers |-> 0]
  /\ source = [c \in Codes |-> <<>>]
  /\ debates = <<>>
  /\ tables = <<>>
  /\ status_log = <<>>
  /\ poll_triggers = <<>>
  /\ queue = EmptyBag
  /\ workers = [w \in Workers |-> IdleWorker]
  /\ poll_results = [c \in Codes |-> NoResult]
  /\ polls_submitted = 0
  /\ failures = 0
  /\ retriggers = 0
  /\ last_failure = NoFailure
  /\ prev_poll = [c \in Codes |-> [done |-> FALSE, detected |-> <<>>]]
  /\ retrigger_response = NoResponse
  /\ debate_speakers = {}
  /\ stage_runs = EmptyBag
  /\ \E level \in [{KEYWORD_MAP_KEYS[k] : k \in 1..MaxKeywordTopics} -> KeywordLevels],
        answer \in LlmAnswers :
       categorizer = [keyword_scores |-> KeywordScores(level), llm_answer |-> answer,
                      returned |-> FALSE, result |-> <<>>]
  /\ aligner = NoAligner

NextCategorize == categorize_debate

SpecCategorize == InitCategorize /\ [][NextCategorize]_vars

\* the rows step 1 of map_speakers leaves in debate_speakers
RECURSIVE EnsureSpeakers(_, _, _)
EnsureSpeakers(rows, code, speakers) ==
  IF speakers = <<>> THEN rows
  ELSE EnsureSpeakers(_ensure_speaker_in_db(rows, code, Head(speakers)), code,
                      Tail(speakers))

\* process_debate, audio-first: map_speakers on the primary transcript and the
\* parsed Hansard
ProcessMapSpeakers ==
  /\ aligner.pc = "fetched"
  /\ aligner' = [aligner EXCEPT
                   !.pc = "mapped",
                   !.speaker_mappings = map_speakers(aligner.segments,
                                                     aligner.hansard_data)]
  /\ debate_speakers' =
       IF aligner.hansard_data.available
       THEN EnsureSpeakers(debate_speakers, "ON", aligner.hansard_data.speakers)
       ELSE debate_speakers
  /\ UNCHANGED <<budget, source, debates, tables, queue, workers, poll_results,
                 polls_submitted, failures, retriggers, status_log, poll_triggers,
                 last_failure, prev_poll, stage_runs, categorizer>>
  /\ retrigger_response' = NoResponse

\* process_debate, audio-first: extract_contributions on the mapping
ProcessExtractContributions ==
  /\ aligner.pc = "mapped"
  /\ aligner' = [aligner EXCEPT
                   !.pc = "extracted",
                   !.contributions = extract_contributions(aligner.segments,
                                                           aligner.speaker_mappings)]
  /\ UNCHANGED <<budget, source, debates, tables, queue, workers, poll_results,
                 polls_submitted, failures, retriggers, status_log, poll_triggers,
                 last_failure, prev_poll, debate_speakers, stage_runs, categorizer>>
  /\ retrigger_response' = NoResponse

\* the segment lists of a primary transcript
SegmentLists == UNION {[1..n -> SegmentTexts] : n \in 0..MaxSegments}

\* what fetch_and_parse_hansard answers: no transcript, or its speakers with
\* the interventions published so far
HansardAnswers ==
  {[available |-> FALSE, speakers |-> <<>>, interventions |-> <<>>]}
  \cup {[available |-> TRUE, speakers |-> HansardSpeakers,
          interventions |-> SubSeq(HansardInterventions, 1, n)] :
           n \in 0..Len(HansardInterventions)}

\* the audio-first branch of process_debate alone, on every transcript and
\* every Hansard answer
InitProcess ==
  /\ budget = [polls |-> 0, failures |-> 0, retriggers |-> 0]
  /\ source = [c \in Codes |-> <<>>]
  /\ debates = <<>>
  /\ tables = <<>>
  /\ status_log = <<>>
  /\ poll_triggers = <<>>
  /\ queue = EmptyBag
  /\ workers = [w \in Workers |-> IdleWorker]
  /\ poll_results = [c \in Codes |-> NoResult]
  /\ polls_submitted = 0
  /\ failures = 0
  /\ retriggers = 0
  /\ last_failure = NoFailure
  /\ prev_poll = [c \in Codes |-> [done |-> FALSE, detected |-> <<>>]]
  /\ retrigger_response = NoResponse
  /\ debate_speakers = {}
  /\ stage_runs = EmptyBag
  /\ categorizer = NoCategorizer
  /\ \E segments \in SegmentLists, hansard_data \in HansardAnswers :
       aligner = [pc |-> "fetched", segments |-> segments, hansard_data |-> hansard_data,
                  speaker_mappings |-> [keys |-> "segments", map |-> <<>>],
                  contributions |-> <<>>]

NextProcess == ProcessMapSpeakers \/ ProcessExtractContributions

SpecProcess == InitProcess /\ [][NextProcess]_vars

(* ------------------------------- claims ------------------------------- *)
\* a task of the debate's pipeline is in the broker or in a worker's hands
Pending(d) ==
  \/ \E m \in Messages : m.kind = "stage" /\ m.debate = d
  \/ \E w \in Workers : workers[w].pc \in {"work", "mark"} /\ workers[w].debate = d

\* the statuses of a pipeline under way
InProgress ==
  {"scraping_hansard", "ingesting", "transcribing", "processing", "summarizing",
   "categorizing", "publishing"}

\* C1: once a debate's status is published or error, no step other than an
\* administrative retrigger changes it.
C1_TerminalStatusKept ==
  [][\A d \in Ids :
       debates[d].status \in {"published", "error"} =>
         debates'[d].status = debates[d].status \/ retriggers' # retriggers]_vars

\* C2: every debate has 0 <= retry_count <= max_retries + 1 in every state.
C2_RetryCountBounded ==
  \A d \in Ids :
    0 <= debates[d].retry_count /\ debates[d].retry_count <= max_retries + 1

\* C3: a chain triggered from detected in which no collaborator failed has,
\* once it is over, written exactly the status sequence of its variant.
C3_FailureFreeChainSpellsSequence ==
  \A d \in Ids :
    (poll_triggers[d] = 1 /\ retriggers = 0 /\ failures = 0 /\ ~Pending(d)) =>
      IF debates[d].legislature = "CA"
      THEN status_log[d].hansard = Len(HansardSequence)
      ELSE status_log[d].legacy = Len(LegacySequence)

C5_NoStrandedDebate ==
  \A d \in Ids : debates[d].status \in InProgress => Pending(d)

\* C6: while a retry of a stage is pending, the debate's status is the status
\* the stage wrote on entry.
C6_StatusKeptBetweenAttempts ==
  \A m \in Messages :
    (m.kind = "stage" /\ m.retries > 0) =>
      debates[m.debate].status = EnterStatus(Head(m.chain))

\* C7: when an attempt of a stage succeeds after a failed attempt, the debate's
\* error_message is null after the success.
C7_SuccessClearsErrorMessage ==
  [][\A w \in Workers :
       (workers[w].pc = "work" /\ workers[w].retries > 0 /\ workers'[w].pc = "idle") =>
         debates'[workers[w].debate].error_message = NoMessage]_vars

\* C8: there is at most one debate row for each (legislature, external_id),
\* whatever the interleaving of poll runs.
C8_OneRowPerExternalId ==
  \A d1, d2 \in Ids :
    (debates[d1].legislature = debates[d2].legislature
       /\ debates[d1].external_id = debates[d2].external_id) => d1 = d2

\* two overlapping poll runs both tried to insert the sitting: one row is
\* stored and the other run ended on the rejected insert
C8_RejectedInsertWitness ==
  \E c \in Codes : poll_results[c].error /\ RowsOf(debates, c) = 1

\* C9: a poll run that follows a finished run of the same legislature on the
\* same unchanged source inserts no row and reports debates_new = 0.
C9_SecondPollFindsNothingNew ==
  /\ \A c \in Codes :
       poll_results[c].seq =>
         poll_results[c].new = 0 /\ poll_results[c].added = 0 /\ ~poll_results[c].error
  /\ \A w \in Workers :
       (workers[w].pc \in {"select", "write"} /\ workers[w].seq) =>
         workers[w].new_count = 0 /\ RowsOf(debates, Head(workers[w].codes)) = workers[w].rows0

\* a second run in sequence has looked at the sitting and reported
C9_SecondPollWitness ==
  \E c \in Codes :
    poll_results[c].seq /\ poll_results[c].found = 1 /\ poll_results[c].new = 0

\* C10: the pipeline of a debate is triggered at most once by poll runs,
\* however many of them observe the candidate.
C10_TriggeredOnce == \A d \in Ids : poll_triggers[d] <= 1

\* the row a poll worker selected
SelectedRow(w) == workers[w].existing

\* C11: a poll run that finds an existing row changes no field of it and
\* triggers no pipeline for it unless the row's status is scheduled and the
\* candidate's status is detected.
C11_PollLeavesOtherRowsAlone ==
  [][\A w \in Workers :
       (/\ workers[w].pc = "write"
        /\ workers'[w].pc # "write"
        /\ SelectedRow(w) # 0
        /\ ~(/\ debates[SelectedRow(w)].status = "scheduled"
             /\ workers[w].detected[workers[w].i].status = "detected"))
       => /\ debates'[SelectedRow(w)] = debates[SelectedRow(w)]
          /\ poll_triggers'[SelectedRow(w)] = poll_triggers[SelectedRow(w)]]_vars

\* the candidates of the source that stand for a debate row
CandidatesOf(d) ==
  {k \in DOMAIN source[debates[d].legislature] :
     source[debates[d].legislature][k].external_id = debates[d].external_id}

\* C12: a poll run has triggered the pipeline of a debate only if the sitting
\* is dated within the last 2 days.
C12_TriggeredOnlyIfRecent ==
  \A d \in Ids :
    poll_triggers[d] > 0 =>
      \A k \in CandidatesOf(d) : source[debates[d].legislature][k].recent

\* C13: a debate in status scheduled leaves it only for detected (no stage
\* task runs for it), administrative requests aside.
C13_ScheduledLeavesOnlyForDetected ==
  [][\A d \in Ids :
       (debates[d].status = "scheduled" /\ retriggers' = retriggers) =>
         debates'[d].status \in {"scheduled", "detected"}]_vars

\* the status values the tasks of a chain write, in order
RECURSIVE WrittenBy(_)
WrittenBy(tasks) ==
  IF tasks = <<>> THEN <<>>
  ELSE <<EnterStatus(Head(tasks))>> \o BodyStatus(Head(tasks)) \o WrittenBy(Tail(tasks))

\* the part of a status sequence from a status on
SuffixFrom(seq, status) ==
  SubSeq(seq, CHOOSE k \in 1..Len(seq) : seq[k] = status, Len(seq))

\* from_stage followed by what the chain writes, from_stage not repeated
StatusesFrom(from_stage, tasks) ==
  IF tasks # <<>> /\ EnterStatus(Head(tasks)) = from_stage THEN WrittenBy(tasks)
  ELSE <<from_stage>> \o WrittenBy(tasks)

\* from_stage names a stage of the variant
NamesStage(from_stage, hansard_first) ==
  from_stage \in DOMAIN (IF hansard_first THEN HansardStages ELSE LegacyStages)

C15_RetriggerKeepsRetryCount ==
  [][retriggers' # retriggers =>
       \A d \in Ids : debates'[d].retry_count = debates[d].retry_count]_vars

\* the exhausted debate has been retriggered from publishing and still has
\* retry_count max_retries + 1
C15_RetriggerOfExhaustedWitness ==
  /\ retrigger_response.debate # 0
  /\ retrigger_response.from_stage = "publishing"
  /\ debates[retrigger_response.debate].retry_count = max_retries + 1
  /\ debates[retrigger_response.debate].status = "publishing"


\* the workers executing a stage task of a debate
Executing(d) ==
  {w \in Workers : workers[w].pc \in {"work", "mark"} /\ workers[w].debate = d}

\* C16: at most one stage task is executing for a debate at any time.
C16_OneStageTaskPerDebate == \A d \in Ids : Cardinality(Executing(d)) <= 1

\* C17: the handling of a failed attempt raises the debate's retry_count by
\* exactly one, also when another failure of the debate is handled at the
\* same time.
C17_FailureAddsOne ==
  [][\A w \in Workers :
       (workers[w].pc = "mark" /\ workers'[w].pc = "idle") =>
         debates'[workers[w].debate].retry_count =
           debates[workers[w].debate].retry_count + 1]_vars

\* C18: no step lowers a debate's retry_count.
C18_RetryCountNeverDecreases ==
  [][\A d \in Ids : debates'[d].retry_count >= debates[d].retry_count]_vars

\* C19: every debate's status is one of the eleven values of the vocabulary.
C19_StatusInVocabulary == \A d \in Ids : debates[d].status \in StatusValues

\* the sum of retry_count over the rows 1..n
RECURSIVE RetryCountSum(_)
RetryCountSum(n) == IF n = 0 THEN 0 ELSE debates[n].retry_count + RetryCountSum(n - 1)

\* C20: every failure of a collaborator during a stage task is in the hands of
\* the task's handler or has been counted in a debate's retry_count.
C20_EveryFailureCounted ==
  failures <= RetryCountSum(Len(debates))
              + Cardinality({w \in Workers : workers[w].pc = "mark"})

\* C21: every debate in status published has an en summary row, a category
\* row marked primary and exactly one forum-post row.
C21_PublishedHasOutputs ==
  \A d \in Ids :
    debates[d].status = "published" =>
      /\ "en" \in tables[d].summaries
      /\ tables[d].categories >= 1
      /\ tables[d].forum_posts = 1

\* C22: the sequence_order values of a debate's contribution rows are exactly
\* 0 .. N-1, each once.
C22_SequenceOrderIsPermutation ==
  \A d \in DOMAIN tables :
    LET rows == tables[d].contributions
    IN  \A k \in 0..(Len(rows) - 1) :
          Cardinality({i \in DOMAIN rows : rows[i] = k}) = 1

\* the numbers of rows a debate owns in its child tables
RowCounts(t) ==
  <<Len(t.contributions), t.transcripts, t.media, Cardinality(t.summaries),
    t.categories, t.forum_posts>>

StageTaskNames ==
  {"scrape_hansard", "ingest_debate", "transcribe_debate", "process_debate",
   "summarize_debate", "publish_debate"}

\* C23: when a stage task that has already returned for a debate returns for
\* it again, the numbers of the debate's rows are what they were.
C23_SecondRunAddsNoRows ==
  [][\A d \in Ids, task \in StageTaskNames :
       (/\ CopiesIn(<<d, task>>, stage_runs) >= 1
        /\ CopiesIn(<<d, task>>, stage_runs') = CopiesIn(<<d, task>>, stage_runs) + 1)
       => RowCounts(tables'[d]) = RowCounts(tables[d])]_vars

\* C24: the chain a poll run triggered for a federal debate, in which no
\* collaborator failed, is over only with the debate published, with its en
\* and fr summaries, a primary category, one forum post and retry_count 0.
C24_HappyPathPublished ==
  \A d \in Ids :
    (/\ debates[d].legislature = "CA"
     /\ poll_triggers[d] = 1 /\ retriggers = 0 /\ failures = 0
     /\ ~Pending(d)) =>
      /\ debates[d].status = "published"
      /\ tables[d].summaries = {"en", "fr"}
      /\ tables[d].categories >= 1
      /\ tables[d].forum_posts = 1
      /\ debates[d].retry_count = 0

\* the stage tasks of a debate in the broker (with their copies) or in a
\* worker's hands
InFlight(d) ==
  LET ms == {m \in Messages : m.kind = "stage" /\ m.debate = d}
      count[S \in SUBSET ms] ==
        IF S = {} THEN 0
        ELSE LET m == CHOOSE x \in S : TRUE
             IN  CopiesIn(m, queue) + count[S \ {m}]
  IN  count[ms] + Cardinality({w \in Workers :
                                 workers[w].pc \in {"work", "mark"} /\ workers[w].debate = d})

\* the tasks of a poll-triggered chain before and from the first task of rest
Returned(d, task) == CopiesIn(<<d, task>>, stage_runs) >= 1

InOrder(d, rest) ==
  LET whole == StageTasks("detected", debates[d].legislature = "CA")
      done == Len(whole) - Len(rest)
  IN  /\ done >= 0
      /\ rest = SubSeq(whole, done + 1, Len(whole))
      /\ \A k \in 1..done : Returned(d, whole[k])
      /\ \A k \in (done + 1)..Len(whole) : ~Returned(d, whole[k])

\* C25: in a poll-triggered chain one stage task of the debate is under way
\* at most; every stage before it has returned and no stage from it on has;
\* a debate in status error has no stage task left.
C25_StageAfterPredecessor ==
  \A d \in Ids :
    /\ InFlight(d) <= 1
    /\ \A m \in Messages : (m.kind = "stage" /\ m.debate = d) => InOrder(d, m.chain)
    /\ \A w \in Workers :
         (workers[w].pc \in {"work", "mark"} /\ workers[w].debate = d)
           => InOrder(d, workers[w].chain)
    /\ debates[d].status = "error" => ~Pending(d)

\* a failed second stage awaits its retry, the first stage has returned
C25_RetryAwaitedWitness ==
  \E m \in Messages :
    /\ m.kind = "stage" /\ m.retries > 0
    /\ Head(m.chain) = "process_debate"
    /\ Returned(m.debate, "scrape_hansard")

\* C26: a poll run whose insert met the unique key reports no error.
C26_InsertConflictSwallowed ==
  \A c \in Codes : ~poll_results[c].error

\* C27: a stage failure on a row that is not there leaves the debate in status
\* error, with no retry sent.
C27_FatalErrorFailsFast ==
  last_failure.error = "NotFound" =>
    (last_failure.status_after = "error" /\ ~last_failure.requeued)

\* C28: a run of summarize_debate in which no collaborator failed (whatever
\* text the LLM returned) returns, with the en summary stored and retry_count
\* and error_message as they were.
C28_SummarizeRunStoresSummary ==
  [][\A w \in Workers :
       (/\ workers[w].pc = "work"
        /\ Head(workers[w].chain) = "summarize_debate"
        /\ workers'[w].pc # "work"
        /\ failures' = failures)
       => LET d == workers[w].debate
          IN  /\ workers'[w].pc = "idle"
              /\ "en" \in tables'[d].summaries
              /\ debates'[d].retry_count = debates[d].retry_count
              /\ debates'[d].error_message = debates[d].error_message]_vars

\* 0.3 x keyword + 0.7 x LLM of a topic, from the two classifications
RECURSIVE SumOf(_, _, _)
SumOf(items, topic, weight) ==
  IF items = <<>> THEN 0
  ELSE (IF Head(items).topic = topic THEN weight * Head(items).score ELSE 0)
       + SumOf(Tail(items), topic, weight)

CombinedScore(topic) ==
  LET llm == _llm_classify(categorizer.llm_answer)
  IN  SumOf(categorizer.keyword_scores, topic, KEYWORD_WEIGHT)
      + SumOf([k \in DOMAIN llm |-> [topic |-> llm[k].topic_slug,
                                     score |-> llm[k].confidence]], topic, LLM_WEIGHT)

\* C29: the categoriser returns 1 to 3 entries with distinct slugs of the
\* closed set and confidences in [0,1], exactly one of them primary; when a
\* topic reaches the threshold the primary entry has the highest combined
\* score, otherwise the result is the one primary general entry at 0.5.
C29_CategoriserContract ==
  categorizer.returned =>
    LET r == categorizer.result
        reach == {t \in ValidTopics : CombinedScore(t) >= THRESHOLD}
    IN  /\ Len(r) \in 1..3
        /\ \A i, j \in DOMAIN r : i # j => r[i].topic_slug # r[j].topic_slug
        /\ \A i \in DOMAIN r :
             /\ r[i].topic_slug \in ValidTopics
             /\ 0 <= r[i].confidence /\ r[i].confidence <= FULL
        /\ Cardinality({i \in DOMAIN r : r[i].is_primary}) = 1
        /\ reach # {} =>
             \A i \in DOMAIN r :
               /\ r[i].topic_slug \in reach
               /\ r[i].is_primary =>
                    \A t \in ValidTopics :
                      CombinedScore(r[i].topic_slug) >= CombinedScore(t)
        /\ reach = {} => r = GeneralOnly

\* four topics scored, three returned, the first capped at 1.0
C29_ThreeOfFourWitness ==
  /\ categorizer.returned
  /\ Len(categorizer.result) = 3
  /\ Cardinality({t \in ValidTopics : CombinedScore(t) > 0}) = 4
  /\ categorizer.result[1].confidence = FULL
  /\ CombinedScore(categorizer.result[1].topic_slug) > FULL

\* C30: no two speaker rows of a debate have the same normalised name.
C30_OneSpeakerPerNormalisedName ==
  \A r, q \in debate_speakers :
    (/\ r.debate # 0 /\ r.debate = q.debate
     /\ _normalize_name(r.name) = _normalize_name(q.name)) => r = q

\* C31: a debate publish_debate has published has no media directory left.
C31_MediaDirectoryDeleted ==
  \A d \in Ids :
    (debates[d].status = "published" /\ Returned(d, "publish_debate")) =>
      ~tables[d].media_dir

\* C32: a failure of the exhausted debate after its retrigger is the first
\* attempt of the re-entered chain, leaves the debate in status error and
\* sends no retry.  (Under SpecAdmin the debate a poll run had triggered is
\* the exhausted one.)
C32_NoBudgetAfterExhaustion ==
  (last_failure.debate # 0 /\ poll_triggers[last_failure.debate] = 1) =>
    /\ last_failure.nth = 1
    /\ last_failure.status_after = "error"
    /\ ~last_failure.requeued

\* the exhausted debate was retriggered, failed once more and is back in error
C32_BackInErrorWitness ==
  /\ retriggers = 1
  /\ last_failure.debate # 0
  /\ poll_triggers[last_failure.debate] = 1
  /\ debates[last_failure.debate].status = "error"
  /\ debates[last_failure.debate].retry_count = max_retries + 2
  /\ ~Pending(last_failure.debate)

\* C33: the write of a failure handler that sets status error also sets
\* error_message to the max-retries message and retry_count above
\* max_retries; any other handler write changes error_message and
\* retry_count only.
C33_ErrorWriteIsComplete ==
  [][\A w \in Workers :
       (workers[w].pc = "mark" /\ workers'[w].pc = "idle") =>
         LET d == workers[w].debate
         IN  /\ \A e \in Ids : e # d => debates'[e] = debates[e]
             /\ IF debates'[d].status = "error"
                THEN /\ debates'[d].error_message = MaxRetriesMessage
                     /\ debates'[d].retry_count > max_retries
                ELSE [debates'[d] EXCEPT !.error_message = debates[d].error_message,
                                         !.retry_count = debates[d].retry_count]
                       = debates[d]]_vars

\* a handler has just moved a debate to status error
C33_ErrorWrittenWitness ==
  /\ last_failure.debate # 0
  /\ last_failure.status_before # "error"
  /\ last_failure.status_after = "error"
  /\ debates[last_failure.debate].error_message = MaxRetriesMessage
  /\ debates[last_failure.debate].retry_count = max_retries + 1

\* C38: a stage task that returns leaves retry_count as it was; a failure
\* adds one to it and moves the debate to status error exactly when it is
\* failure number max_retries + 1 of the debate, whatever stages the
\* earlier failures were in.
C38_OneCounterForAllStages ==
  [][/\ \A d \in Ids :
          stage_runs' # stage_runs => debates'[d].retry_count = debates[d].retry_count
     /\ \A w \in Workers :
          (workers[w].pc = "mark" /\ workers'[w].pc = "idle") =>
            LET d == workers[w].debate
            IN  /\ debates'[d].retry_count = debates[d].retry_count + 1
                /\ debates'[d].status = "error"
                     <=> debates'[d].retry_count = max_retries + 1]_vars

\* a stage reached error on fewer than max_retries + 1 failures of its own,
\* the earlier ones counted in an earlier stage
C38_EarlierFailuresCountWitness ==
  /\ last_failure.debate # 0
  /\ last_failure.status_after = "error"
  /\ last_failure.start > 0
  /\ last_failure.nth = max_retries + 1 - last_failure.start

\* C40: after a retrigger whose from_stage is no key of the selected variant's
\* stage table, the status is from_stage and the one message sent is the
\* variant's whole chain.
C40_UnknownStageSendsWholeChain ==
  LET r == retrigger_response
      stages == IF r.hansard_first THEN HansardStages ELSE LegacyStages
  IN  (r.debate # 0 /\ r.from_stage \notin DOMAIN stages) =>
        /\ debates[r.debate].status = r.from_stage
        /\ r.sent = SetToBag({StageMsg(r.debate, stages["detected"], 0)})

\* a transcript-first retrigger from a stage of the audio-first table only
C40_OtherVariantStageWitness ==
  /\ retrigger_response.debate # 0
  /\ retrigger_response.hansard_first
  /\ retrigger_response.from_stage = "ingesting"
  /\ debates[retrigger_response.debate].status = "ingesting"
  /\ BagToSet(retrigger_response.sent) # {}

\* C34: when the scraper answers with no speech, the raise leaves the store as
\* it was, and its handler adds one to retry_count and writes no speaker or
\* contribution row and no hansard_scraped flag.
C34_NoSpeechesCostsOneRetry ==
  [][\A w \in Workers :
       /\ (workers[w].pc = "work" /\ workers'[w].pc = "mark"
             /\ workers'[w].error = "NoSpeeches") =>
            /\ debates' = debates
            /\ tables' = tables
            /\ debate_speakers' = debate_speakers
       /\ (workers[w].pc = "mark" /\ workers[w].error = "NoSpeeches"
             /\ workers'[w].pc = "idle") =>
            LET d == workers[w].debate
            IN  /\ debates'[d].retry_count = debates[d].retry_count + 1
                /\ debates'[d].hansard_scraped = debates[d].hansard_scraped
                /\ tables' = tables
                /\ debate_speakers' = debate_speakers]_vars

\* the first scrape of a debate met no speech and was counted
C34_EmptyScrapeWitness ==
  /\ last_failure.debate # 0
  /\ last_failure.error = "NoSpeeches"
  /\ last_failure.requeued
  /\ debates[last_failure.debate].retry_count = 1
  /\ ~debates[last_failure.debate].hansard_scraped
  /\ tables[last_failure.debate].contributions = <<>>
  /\ debate_speakers = {}

\* C35: process_debate returns only for a debate that has contributions.
C35_ProcessNeedsContributions ==
  [][\A d \in Ids :
       CopiesIn(<<d, "process_debate">>, stage_runs')
         > CopiesIn(<<d, "process_debate">>, stage_runs)
       => tables'[d].contributions # <<>>]_vars

\* the place of a status in the order of a chain (either variant)
ChainPosition(status) ==
  CASE status = "scheduled" -> 0
    [] status = "detected" -> 1
    [] status \in {"scraping_hansard", "ingesting"} -> 2
    [] status = "transcribing" -> 3
    [] status = "processing" -> 4
    [] status = "summarizing" -> 5
    [] status = "categorizing" -> 6
    [] status = "publishing" -> 7
    [] status = "published" -> 8
    [] OTHER -> 9

ResolvedName(seg) ==
  _detect_speaker_in_text(seg, SpeakerNameToId(aligner.hansard_data.speakers))

\* C36: after the alignment loop has run, every segment whose text starts with
\* a `Name:` prefix that resolves against the known speakers is mapped to that
\* speaker, wherever it is in the list.
C36_NamePrefixAlwaysOverrides ==
  (/\ aligner.pc \in {"mapped", "extracted"}
   /\ aligner.hansard_data.available
   /\ aligner.hansard_data.interventions # <<>>) =>
    \A k \in DOMAIN aligner.segments :
      ResolvedName(aligner.segments[k]) # NoSpeaker =>
        SegmentSpeaker(aligner.speaker_mappings, k - 1) = ResolvedName(aligner.segments[k])

\* segments i..j (counted from 0) are a maximal run of one speaker
MaximalRun(i, j) ==
  LET of(k) == SegmentSpeaker(aligner.speaker_mappings, k)
      last == Len(aligner.segments) - 1
  IN  /\ i <= j
      /\ \A k \in i..j : of(k) = of(i)
      /\ i > 0 => of(i - 1) # of(i)
      /\ j < last => of(j + 1) # of(i)

\* the maximal runs that hold at least three words
KeptRuns ==
  LET last == Len(aligner.segments) - 1
  IN  {r \in (0..last) \X (0..last) :
         /\ MaximalRun(r[1], r[2])
         /\ WordCount(aligner.segments, [k \in 1..(r[2] - r[1] + 1) |-> r[1] + k - 1]) >= 3}

\* C37: the contributions extract_contributions returns are the maximal runs
\* of one speaker (unmapped being one speaker) that hold at least three words,
\* in segment order and numbered 0..N-1.
C37_ContributionsAreKeptRuns ==
  aligner.pc = "extracted" =>
    LET c == aligner.contributions
    IN  /\ Len(c) = Cardinality(KeptRuns)
        /\ \A k \in DOMAIN c :
             /\ <<c[k].first, c[k].last>> \in KeptRuns
             /\ c[k].speaker_id = SegmentSpeaker(aligner.speaker_mappings, c[k].first)
             /\ c[k].sequence_order = k - 1
             /\ c[k].words >= 3
             /\ k > 1 => c[k - 1].last < c[k].first

\* a run of fewer than three words between two contributions was dropped, and
\* the numbering has no gap
C37_ShortRunDroppedWitness ==
  /\ aligner.pc = "extracted"
  /\ Len(aligner.contributions) = 2
  /\ aligner.contributions[2].first > aligner.contributions[1].last + 1
  /\ aligner.contributions[2].sequence_order = 1
  /\ aligner.contributions[1].speaker_id # aligner.contributions[2].speaker_id


\* the exhausted federal debate InitAdmin starts from is a state a poll-triggered
\* chain ends in
ExhaustedDebateReached ==
  /\ debates = <<ExhaustedRow>>
  /\ tables = <<ExhaustedChildren>>
  /\ status_log = <<ExhaustedLog>>
  /\ poll_triggers = <<1>>
  /\ stage_runs = ExhaustedRuns
  /\ \E name \in SpeakerNames : debate_speakers = {ScrapedSpeaker(1, name)}
  /\ queue = EmptyBag
  /\ \A w \in Workers : workers[w].pc = "idle"

====
